---- MODULE Spec2Model ----
(***************************************************************************)
(* Model of the real-time detection-count stabilisation and notification  *)
(* pipeline of src/jiance1.py: the WatermarkGenerator target monitor, the  *)
(* CameraThread frame hand-off and its stop/run interleavings, the          *)
(* AudioManager announcement queue, and the PillDetectorApp handlers that  *)
(* drive them; and of the RPModelHandler file format shared with           *)
(* src/xunlian.py.                                                         *)
(*                                                                         *)
(* The speech engine is outside the program.  It is taken to keep its      *)
(* contract: say() and runAndWait() do not raise once the engine is        *)
(* initialized, runAndWait() returns when the utterance has been sounded,  *)
(* and finished-utterance is delivered before it returns.                  *)
(*                                                                         *)
(* Time is counted in whole seconds (time.time() read once per call).      *)
(* The empty success_timestamp "" and the unset target_start_time are 0,   *)
(* as in the source, where the clock itself is always positive.            *)
(***************************************************************************)
EXTENDS Integers, Sequences, FiniteSets, TLC

VARIABLES
    watermark,      \* PillDetectorApp.watermark: the WatermarkGenerator fields
    now,            \* time.time(), in seconds
    h,              \* history of the monitor calls (observation only)
    script,         \* the scripted caller of SpecScript: counts, period, position
    cam,            \* the CameraThread object: running, camera, frame_queue
    acq,            \* the acquisition thread: its position in run() and locals
    app,            \* PillDetectorApp fields and the main thread's position
    ch,             \* history of the frame hand-off and of stop() (observation only)
    audio,          \* PillDetectorApp.audio_manager: the AudioManager fields
    sink,           \* the speech engine and the chime: what is sounding
    cb,             \* the threads inside AudioManager code: position, local
    ah,             \* history of the AudioManager calls (observation only)
    tk,             \* history of the last _update_video tick (observation only)
    rp              \* RPModelHandler's files: the model, the .rp file, the output

monVars == <<watermark, now, h>>
camVars == <<cam, acq, app, ch>>
audVars == <<audio, sink, cb, ah, tk>>
vars == <<watermark, now, h, script, cam, acq, app, ch, audio, sink, cb, ah, tk,
          rp>>

\* ------------------------------------------------------------------ bounds
MaxTime == 9
MaxTarget == 2
MaxCount == 2
RunCap == 3
StartTime == 1
ScriptLen == 8
MaxPeriod == 2
MaxFrames == 2
MaxPending == 2
MaxBoxes == 1
MaxSpeaks == 4
MaxTickTime == 5
MaxModelLen == 3

\* random.randint(2, 5) of update_stats
SettleMin == 2
SettleMax == 5

\* The counts update_stats is given and the targets _set_target_pills accepts
\* (negative targets are refused at line 1875).
Counts == 0..MaxCount
Targets == 0..MaxTarget
Mut_Settles_from_one == 1..SettleMax

Settles == SettleMin..SettleMax

\* ---------------------------------------------------------- RPModelHandler
\* HEADER = b"PILL_MODEL_RP_2026", byte by byte
HEADER ==
    <<80, 73, 76, 76, 95, 77, 79, 68, 69, 76, 95, 82, 80, 95, 50, 48, 50, 54>>

\* KEY = 0x5A
KEY == 90

\* f.read(16) of decrypt_model: the bytes read as the header and as the md5
HeaderRead == 16
DigestRead == 16

\* The bytes a model file is made of here: 0, KEY, its complement, 255.
ModelBytes == {0, 90, 165, 255}

\* b ^ KEY on bytes, bit by bit
RECURSIVE XorBits(_, _, _)
XorBits(a, b, n) ==
    IF n = 0
    THEN 0
    ELSE (((a % 2) + (b % 2)) % 2) + 2 * XorBits(a \div 2, b \div 2, n - 1)

xor_key(b) ==
    XorBits(b, KEY, 8)

\* bytes([b ^ KEY for b in data])
xor_bytes(data) ==
    [i \in 1..Len(data) |-> xor_key(data[i])]

\* hashlib.md5(data).digest(): 16 bytes that depend on every byte of data
\* and on its length (a positional checksum stands for the hash).
RECURSIVE WeightedSum(_, _)
WeightedSum(data, k) ==
    IF data = <<>>
    THEN 0
    ELSE (k * (Head(data) + 1) + 31 * WeightedSum(Tail(data), k)) % 251

md5(data) ==
    [i \in 1..16 |-> (WeightedSum(data, i) + i * Len(data)) % 256]

\* f.read(n) at offset pos of a file: at most n bytes, fewer at its end.
file_read(file, pos, n) ==
    SubSeq(file, pos + 1, IF pos + n < Len(file) THEN pos + n ELSE Len(file))

\* encrypt_model: the bytes written to rp_path for a model file model_data.
encrypt_model(model_data) ==
    HEADER \o md5(model_data) \o xor_bytes(model_data)

\* decrypt_model on an .rp file: the value returned and the bytes written
\* to pt_path (none when it returns False before writing).
decrypt_model(file) ==
    LET header == file_read(file, 0, HeaderRead)
        digest == file_read(file, HeaderRead, DigestRead)
        encrypted_data == file_read(file, HeaderRead + DigestRead, Len(file))
        model_data == xor_bytes(encrypted_data) IN
    IF header # HEADER
    THEN [ok |-> FALSE, written |-> FALSE, out |-> <<>>]
    ELSE IF md5(model_data) # digest
    THEN [ok |-> FALSE, written |-> FALSE, out |-> <<>>]
    ELSE [ok |-> TRUE, written |-> TRUE, out |-> model_data]

\* No model file handled yet.
RpIdle ==
    [phase |-> "idle", model |-> <<>>, file |-> <<>>, ok |-> FALSE,
     written |-> FALSE, out |-> <<>>]

\* ------------------------------------------------ WatermarkGenerator (monitor)
\* __init__: the fields of the target monitor after construction.
WatermarkInit ==
    [ max_pill_count |-> 0,
      current_pill_count |-> 0,
      target_pills |-> 0,
      target_reached |-> FALSE,
      target_start_time |-> 0,
      target_stable_seconds |-> 0,
      success_message_shown |-> FALSE,
      notification_triggered |-> FALSE,
      success_timestamp |-> 0 ]

Mut_set_target_pills_keeps_reached(w, count) ==
    [w EXCEPT !.target_pills = count,
              !.success_message_shown = FALSE,
              !.notification_triggered = FALSE,
              !.success_timestamp = 0]

set_target_pills(w, count) ==
    [w EXCEPT !.target_pills = count,
              !.target_reached = FALSE,
              !.success_message_shown = FALSE,
              !.notification_triggered = FALSE,
              !.success_timestamp = 0]

\* The statistics part of update_stats (current and maximum count).
update_counts(w, pill_count) ==
    [w EXCEPT !.current_pill_count = pill_count,
              !.max_pill_count = IF pill_count > w.max_pill_count
                                 THEN pill_count ELSE w.max_pill_count]

\* update_stats, line 524: the feature is enabled by a positive target.
Mut_target_enabled_nonneg(w) ==
    w.target_pills >= 0

target_enabled(w) ==
    w.target_pills > 0

\* update_stats, lines 526-536: the first observation equal to the target.
target_first_reached(s, t, d) ==
    [s EXCEPT !.target_reached = TRUE,
              !.target_start_time = t,
              !.target_stable_seconds = d,
              !.notification_triggered = FALSE,
              !.success_message_shown = FALSE]

\* update_stats, lines 539-546: has the count been stable long enough.
Mut_target_stable_elapsed_strict(s, t) ==
    t - s.target_start_time > s.target_stable_seconds

Mut_target_stable_elapsed_always(s, t) ==
    TRUE

target_stable_elapsed(s, t) ==
    t - s.target_start_time >= s.target_stable_seconds

\* update_stats, lines 547-558: an observation that differs from the target.
Mut_target_diverged_keeps_episode(s) ==
    [s EXCEPT !.success_message_shown = FALSE,
              !.notification_triggered = FALSE,
              !.success_timestamp = 0]

Mut_target_diverged_keeps_flags(s) ==
    [s EXCEPT !.target_reached = FALSE,
              !.target_start_time = 0,
              !.success_timestamp = 0]

target_diverged(s) ==
    [s EXCEPT !.target_reached = FALSE,
              !.success_message_shown = FALSE,
              !.notification_triggered = FALSE,
              !.target_start_time = 0,
              !.success_timestamp = 0]

\* update_stats, lines 559-564: target 0 disables the feature.
target_disabled(s) ==
    [s EXCEPT !.target_reached = FALSE,
              !.success_message_shown = FALSE,
              !.notification_triggered = FALSE,
              !.success_timestamp = 0]

\* update_stats(pill_count) called at time t, where randint(2, 5) would
\* return d: the new fields and the return value.
update_stats(w, pill_count, t, d) ==
    LET s == update_counts(w, pill_count) IN
    IF target_enabled(s)
    THEN IF pill_count = s.target_pills
         THEN IF ~s.target_reached
              THEN [w |-> target_first_reached(s, t, d), ret |-> FALSE]
              ELSE IF ~s.success_message_shown /\ ~s.notification_triggered
                   THEN [w |-> s, ret |-> target_stable_elapsed(s, t)]
                   ELSE [w |-> s, ret |-> FALSE]
         ELSE [w |-> target_diverged(s), ret |-> FALSE]
    ELSE [w |-> target_disabled(s), ret |-> FALSE]

Mut_mark_notification_timestamp_only(w, t) ==
    [w EXCEPT !.success_timestamp = t]

mark_notification_triggered(w, t) ==
    [w EXCEPT !.notification_triggered = TRUE,
              !.success_message_shown = TRUE,
              !.success_timestamp = t]

Mut_reset_stats_clears_target(w) ==
    [w EXCEPT !.max_pill_count = 0,
              !.current_pill_count = 0,
              !.target_pills = 0,
              !.target_reached = FALSE,
              !.success_message_shown = FALSE,
              !.notification_triggered = FALSE,
              !.success_timestamp = 0]

reset_stats(w) ==
    [w EXCEPT !.max_pill_count = 0,
              !.current_pill_count = 0,
              !.target_reached = FALSE,
              !.success_message_shown = FALSE,
              !.notification_triggered = FALSE,
              !.success_timestamp = 0]

\* ------------------------------------------------------ history of the calls
\* op, ret: the last call and what it returned.  len, start, settle, fires
\* describe the current maximal run of observations equal to the target:
\* its length (capped), the time of its first observation, the value randint
\* gave at that observation, and how often update_stats returned True in it.
\* abandoned: a run ended by an unequal count before firing and before its
\* settle time; afterAbandon: the current run is the first one after that.
\* mustAck: update_stats returned True and the caller has not acknowledged.
\* fresh: set_target_pills was called and update_stats not yet since; first:
\* the last update_stats was the first one after a set_target_pills;
\* targetBefore, reachedBefore: target_pills and target_reached before the
\* last set_target_pills or reset_stats.  stray: some call of
\* mark_notification_triggered was made while target_reached was False.
HistInit ==
    [ op |-> "init", ret |-> FALSE, len |-> 0, start |-> 0, settle |-> 0,
      fires |-> 0, abandoned |-> FALSE, afterAbandon |-> FALSE,
      mustAck |-> FALSE, fresh |-> FALSE, first |-> FALSE,
      targetBefore |-> 0, reachedBefore |-> FALSE, stray |-> FALSE ]

\* A target change or a reset ends the run under observation: the claims
\* about runs are about sequences of update_stats calls under one target.
HistNoRun(op) ==
    [HistInit EXCEPT !.op = op, !.mustAck = h.mustAck,
                     !.fresh = (op = "set_target_pills") \/ h.fresh,
                     !.targetBefore = watermark.target_pills,
                     !.reachedBefore = watermark.target_reached,
                     !.stray = h.stray]

HistObserve(w, pill_count, t, d, ret) ==
    IF w.target_pills > 0 /\ pill_count = w.target_pills
    THEN [ op |-> "update_stats", ret |-> ret,
           len |-> IF h.len < RunCap THEN h.len + 1 ELSE RunCap,
           start |-> IF h.len = 0 THEN t ELSE h.start,
           settle |-> IF h.len = 0 THEN d ELSE h.settle,
           fires |-> IF ret /\ h.fires < 2 THEN h.fires + 1 ELSE h.fires,
           abandoned |-> IF h.len = 0 THEN FALSE ELSE h.abandoned,
           afterAbandon |-> IF h.len = 0 THEN h.abandoned ELSE h.afterAbandon,
           mustAck |-> ret, fresh |-> FALSE, first |-> h.fresh,
           targetBefore |-> h.targetBefore, reachedBefore |-> h.reachedBefore,
           stray |-> h.stray ]
    ELSE [ op |-> "update_stats", ret |-> ret,
           len |-> 0, start |-> 0, settle |-> 0, fires |-> 0,
           abandoned |-> \/ h.abandoned
                         \/ /\ h.len > 0
                            /\ h.fires = 0
                            /\ t - h.start < h.settle,
           afterAbandon |-> FALSE,
           mustAck |-> ret, fresh |-> FALSE, first |-> h.fresh,
           targetBefore |-> h.targetBefore, reachedBefore |-> h.reachedBefore,
           stray |-> h.stray ]

\* ------------------------------------------------------------ CameraThread
\* Queue(maxsize=1) of CameraThread.__init__
Mut_QueueMaxsize_two == 1 + 1

QueueMaxsize == 1

\* backends = [cv2.CAP_DSHOW, cv2.CAP_MSMF, cv2.CAP_ANY], by position
NumBackends == 3

\* CameraThread.__init__: camera is "None", or a VideoCapture that is "open"
\* (holds the device) or "closed" (never opened, or released).
CameraThreadInit ==
    [running |-> TRUE, camera |-> "None", frame_queue |-> <<>>]

\* The thread of a CameraThread: "not_started" until start(), "done" once
\* run() has returned.  n counts the frames read, frame is the local frame.
AcqInit ==
    [pc |-> "not_started", backend |-> 1, frame |-> 0, n |-> 0,
     opened |-> FALSE, readOpen |-> FALSE, sawFull |-> FALSE,
     discarded |-> FALSE]

\* Thread.is_alive()
is_alive ==
    acq.pc \notin {"not_started", "done"}

\* Queue.full()
Mut_queue_full_off_by_one(q) ==
    Len(q) > QueueMaxsize

queue_full(q) ==
    Len(q) >= QueueMaxsize

\* Queue.get_nowait(): the item taken (0 when it raises Empty) and the rest.
queue_get_nowait(q) ==
    IF q = <<>> THEN [item |-> 0, rest |-> q] ELSE [item |-> Head(q), rest |-> Tail(q)]

\* CameraThread.get_frame: Empty is caught and None (0) returned.
get_frame(q) ==
    queue_get_nowait(q)

\* VideoCapture.release() of stop(), guarded by `if self.camera`.
release_camera(c) ==
    IF c = "None" THEN c ELSE "closed"

\* PillDetectorApp.__init__: the fields of the session; pending counts the
\* scheduled _update_video callbacks, mainpc is the main thread's position
\* ("idle" between handlers, "stop" inside CameraThread.stop(), "speak" and
\* "notify" inside engine.runAndWait() under speak(), called directly or by
\* _trigger_success_notification).  target_pills_var is the text of the
\* target entry, which is the value of the IntVar bound to it; pill_count is
\* the local of the _update_video call in progress.
AppInit ==
    [camera_thread |-> "None", current_model |-> FALSE, detecting |-> FALSE,
     recording |-> FALSE, video_writer |-> "None", current_frame |-> 0,
     cam_btn |-> "open_camera", count_label |-> 0, pending |-> 0,
     mainpc |-> "idle", target_pills_var |-> "0", pill_count |-> 0]

\* History of the hand-off and of stop().  writes: puts completed since the
\* last get_frame (capped); lastPut: the frame last put; got, expect: what
\* the last get_frame returned and the frames the hand-off contract allows;
\* stopReturned: the main thread's stop() of this CameraThread has returned;
\* readAfterStop: the thread called camera.read() after that; openFailed:
\* run() returned because no backend opened the device; closeTrace: the
\* effects the close branch of _toggle_camera has performed, in order;
\* closeHad: that close began with a writer open and a count displayed.
CamHistInit ==
    [writes |-> 0, lastPut |-> 0, getSeen |-> FALSE, got |-> 0, expect |-> {0},
     stopReturned |-> FALSE, readAfterStop |-> FALSE, openFailed |-> FALSE,
     closeTrace |-> <<>>, closeHad |-> FALSE]

CamIdle ==
    /\ cam = CameraThreadInit
    /\ acq = AcqInit
    /\ app = AppInit
    /\ ch = CamHistInit

\* ------------------------------------------------------------ AudioManager
\* The texts speak() is given: the empty text, a blank one, two announcements.
Texts == {"", " ", "a", "b"}

\* `not text or len(text.strip()) == 0` of speak
is_blank(text) ==
    text \in {"", " "}

\* An entry of message_queue: the text, and its number in the order in which
\* speak() accepted it (two equal texts are two entries).  NoItem: nothing.
NoItem == [id |-> 0, text |-> ""]

\* AudioManager.__init__ with _init_audio: made is whether pyttsx3.init()
\* returned an engine, ok whether the whole try block went through.
AudioManagerInit(made, ok) ==
    [initialized |-> ok, engine |-> made, message_queue |-> <<>>,
     is_speaking |-> FALSE]

\* The speech engine: the utterances it is sounding.
SinkInit == [playing |-> {}]

\* `not self.initialized or not self.engine`, negated
Mut_sink_ready_engine_only(a) ==
    a.engine

sink_ready(a) ==
    a.initialized /\ a.engine

\* _speak_direct up to engine.say(text, text): the fields after it and the
\* entry handed to the engine (say).
speak_direct(a, item) ==
    IF ~sink_ready(a)
    THEN [a |-> a, say |-> NoItem]
    ELSE [a |-> [a EXCEPT !.is_speaking = TRUE], say |-> item]

\* _process_next_message
Mut_process_next_message_keeps_item(a) ==
    IF a.message_queue # <<>> /\ ~a.is_speaking
    THEN speak_direct(a, Head(a.message_queue))
    ELSE [a |-> a, say |-> NoItem]

process_next_message(a) ==
    IF a.message_queue # <<>> /\ ~a.is_speaking
    THEN speak_direct([a EXCEPT !.message_queue = Tail(@)], Head(a.message_queue))
    ELSE [a |-> a, say |-> NoItem]

\* speak, up to the engine call of _speak_direct
speak(a, item) ==
    IF ~sink_ready(a) \/ is_blank(item.text)
    THEN [a |-> a, say |-> NoItem]
    ELSE LET q == [a EXCEPT !.message_queue = Append(@, item)] IN
         IF ~q.is_speaking
         THEN process_next_message(q)
         ELSE [a |-> q, say |-> NoItem]

\* _on_speech_end, up to the engine call of _speak_direct
Mut_on_speech_end_keeps_flag(a) ==
    IF a.message_queue # <<>>
    THEN process_next_message(a)
    ELSE [a |-> a, say |-> NoItem]

on_speech_end(a) ==
    LET e == [a EXCEPT !.is_speaking = FALSE] IN
    IF e.message_queue # <<>>
    THEN process_next_message(e)
    ELSE [a |-> e, say |-> NoItem]

\* AudioManager.stop
Mut_stop_flag_inverted(a) ==
    [a EXCEPT !.message_queue = <<>>, !.is_speaking = TRUE]

stop(a) ==
    [a EXCEPT !.message_queue = <<>>, !.is_speaking = FALSE]

\* The threads that run AudioManager code statement by statement when the
\* engine delivers _on_speech_end on a thread of its own: the caller of
\* speak ("main") and the engine's thread ("sink"), each with its position
\* and its local next_message.
Threads == {"main", "sink"}

CallbackInit == [t \in Threads |-> [pc |-> "idle", item |-> NoItem]]

\* History of the AudioManager calls.  op: the last call; calls: the calls of
\* speak so far; texts: the accepted texts in order (entry i has id i);
\* started: the ids in the order in which they began to sound; done: the ids
\* whose playback ended; removed: the ids taken off message_queue;
\* abandoned: the ids that were queued or sounding when stop() was called;
\* raised: pop(0) found the queue empty and raised IndexError.
AudHistInit ==
    [op |-> "init", calls |-> 0, texts |-> <<>>, started |-> <<>>,
     done |-> {}, removed |-> {}, abandoned |-> {}, raised |-> FALSE]

\* History of the last _update_video tick.  frame: it obtained a frame;
\* enabled, boxes: detection was on and what the model returned; updates,
\* arg: the calls of update_stats in the tick and the count given; fired:
\* update_stats returned True; trace: what _trigger_success_notification
\* did, in order; fireStart: the start time of the episode of the last True
\* return; refired: the True return of this tick was for that same episode;
\* failed: the detection call of the tick raised; write: the state of the
\* writer video_writer.write was called on ("none": no call); runFires: the
\* True returns (capped) since the target was last set or an observed count
\* last differed from it; firedTarget: target_pills when update_stats
\* returned True in the tick; said: the announcement speak() accepted in it.
TickHistInit ==
    [frame |-> FALSE, enabled |-> FALSE, boxes |-> 0, updates |-> 0,
     arg |-> 0, fired |-> FALSE, trace |-> <<>>, fireStart |-> 0,
     refired |-> FALSE, failed |-> FALSE, write |-> "none", runFires |-> 0,
     firedTarget |-> 0, said |-> ""]

AudIdle ==
    /\ audio = AudioManagerInit(TRUE, TRUE)
    /\ sink = SinkInit
    /\ cb = CallbackInit
    /\ ah = AudHistInit
    /\ tk = TickHistInit

QueueIds(a) ==
    {a.message_queue[i].id : i \in 1..Len(a.message_queue)}

\* ---------------------------------------------- the monitor under its caller
\* The caller of the monitor: any counts at any times, any target, resets;
\* after a True return it acknowledges before it observes again.
MonTick ==
    /\ now < MaxTime
    /\ now' = now + 1
    /\ h' = [h EXCEPT !.op = "tick", !.ret = FALSE]
    /\ UNCHANGED <<watermark, script, rp, camVars, audVars>>

MonUpdateStats ==
    /\ ~h.mustAck
    /\ \E c \in Counts, d \in Settles :
          LET r == update_stats(watermark, c, now, d) IN
          /\ watermark' = r.w
          /\ h' = HistObserve(watermark, c, now, d, r.ret)
    /\ UNCHANGED <<now, script, rp, camVars, audVars>>

MonMark ==
    /\ h.mustAck
    /\ watermark' = mark_notification_triggered(watermark, now)
    /\ h' = [h EXCEPT !.op = "mark", !.ret = FALSE, !.mustAck = FALSE]
    /\ UNCHANGED <<now, script, rp, camVars, audVars>>

MonSetTarget ==
    /\ \E n \in Targets : watermark' = set_target_pills(watermark, n)
    /\ h' = HistNoRun("set_target_pills")
    /\ UNCHANGED <<now, script, rp, camVars, audVars>>

MonResetStats ==
    /\ watermark' = reset_stats(watermark)
    /\ h' = HistNoRun("reset_stats")
    /\ UNCHANGED <<now, script, rp, camVars, audVars>>

ScriptIdle ==
    [counts |-> <<>>, period |-> 0, settle |-> 0, pos |-> 0,
     phase |-> "idle", fired |-> {}]

InitMon ==
    /\ watermark = WatermarkInit
    /\ now = StartTime
    /\ h = HistInit
    /\ script = ScriptIdle
    /\ rp = RpIdle
    /\ CamIdle
    /\ AudIdle

NextMon ==
    \/ MonTick
    \/ MonUpdateStats
    \/ MonMark
    \/ MonSetTarget
    \/ MonResetStats

SpecMon == InitMon /\ [][NextMon]_vars

\* --------------------------------------------- the monitor under any caller
\* WatermarkGenerator called in any order: update_stats whether or not the
\* last True return was acknowledged, mark_notification_triggered at any
\* time.
AnyUpdateStats ==
    /\ \E c \in Counts, d \in Settles :
          LET r == update_stats(watermark, c, now, d) IN
          /\ watermark' = r.w
          /\ h' = [h EXCEPT !.op = "update_stats", !.ret = r.ret]
    /\ UNCHANGED <<now, script, rp, camVars, audVars>>

AnyMark ==
    /\ watermark' = mark_notification_triggered(watermark, now)
    /\ h' = [h EXCEPT !.op = "mark", !.ret = FALSE,
                      !.stray = @ \/ ~watermark.target_reached]
    /\ UNCHANGED <<now, script, rp, camVars, audVars>>

AnySetTarget ==
    /\ \E n \in Targets : watermark' = set_target_pills(watermark, n)
    /\ h' = [h EXCEPT !.op = "set_target_pills", !.ret = FALSE]
    /\ UNCHANGED <<now, script, rp, camVars, audVars>>

AnyResetStats ==
    /\ watermark' = reset_stats(watermark)
    /\ h' = [h EXCEPT !.op = "reset_stats", !.ret = FALSE]
    /\ UNCHANGED <<now, script, rp, camVars, audVars>>

\* add_watermark: the overlay reads the monitor's fields and assigns none.
AnyAddWatermark ==
    /\ h' = [h EXCEPT !.op = "add_watermark", !.ret = FALSE]
    /\ UNCHANGED <<watermark, now, script, rp, camVars, audVars>>

NextMonAny ==
    \/ MonTick
    \/ AnyAddWatermark
    \/ AnyUpdateStats
    \/ AnyMark
    \/ AnySetTarget
    \/ AnyResetStats

SpecMonAny == InitMon /\ [][NextMonAny]_vars

\* ------------------------------------------ the monitor under a scripted caller
\* A test of the monitor: the target is set to the scenario's, then the
\* counts of a script are observed one every `period` seconds, each True
\* return acknowledged at once, with randint seeded to give `settle`.
Scenario == <<5, 5, 5, 4, 5, 5, 5, 5>>
ScenarioTarget == Scenario[1]
ScriptCounts == {Scenario[i] : i \in 1..Len(Scenario)}

InitScript ==
    /\ watermark = WatermarkInit
    /\ now = StartTime
    /\ h = HistInit
    /\ \E cs \in [1..ScriptLen -> ScriptCounts], p \in 1..MaxPeriod, d \in Settles :
          script = [counts |-> cs, period |-> p, settle |-> d, pos |-> 0,
                    phase |-> "set_target", fired |-> {}]
    /\ rp = RpIdle
    /\ CamIdle
    /\ AudIdle

ScriptSetTarget ==
    /\ script.phase = "set_target"
    /\ watermark' = set_target_pills(watermark, ScenarioTarget)
    /\ h' = HistNoRun("set_target_pills")
    /\ script' = [script EXCEPT !.pos = 1, !.phase = "observe"]
    /\ UNCHANGED <<now, rp, camVars, audVars>>

ScriptObserve ==
    /\ script.phase = "observe"
    /\ script.pos <= Len(script.counts)
    /\ LET c == script.counts[script.pos]
           r == update_stats(watermark, c, now, script.settle) IN
       /\ watermark' = r.w
       /\ h' = HistObserve(watermark, c, now, script.settle, r.ret)
       /\ script' = [script EXCEPT
                        !.phase = "wait",
                        !.fired = IF r.ret THEN @ \cup {script.pos} ELSE @]
    /\ UNCHANGED <<now, rp, camVars, audVars>>

ScriptMark ==
    /\ script.phase = "wait"
    /\ h.mustAck
    /\ watermark' = mark_notification_triggered(watermark, now)
    /\ h' = [h EXCEPT !.op = "mark", !.ret = FALSE, !.mustAck = FALSE]
    /\ UNCHANGED <<now, script, rp, camVars, audVars>>

ScriptWait ==
    /\ script.phase = "wait"
    /\ ~h.mustAck
    /\ now' = now + script.period
    /\ h' = [h EXCEPT !.op = "tick", !.ret = FALSE]
    /\ script' = [script EXCEPT !.pos = @ + 1, !.phase = "observe"]
    /\ UNCHANGED <<watermark, rp, camVars, audVars>>

NextScript ==
    \/ ScriptSetTarget
    \/ ScriptObserve
    \/ ScriptMark
    \/ ScriptWait

SpecScript == InitScript /\ [][NextScript]_vars

\* ------------------------------------ AudioManager under a main-thread caller
\* engine.runAndWait() of _speak_direct blocks its caller until the engine has
\* sounded what say() queued, and delivers finished-utterance, that is
\* _on_speech_end, on that thread before it returns.  mainpc is "speak" while
\* the caller of speak() is inside runAndWait.
AudHistSpeak(item, r) ==
    LET took == r.say = item \/ item.id \in QueueIds(r.a)
        was == QueueIds(audio) \cup (IF took THEN {item.id} ELSE {}) IN
    [ah EXCEPT !.op = "speak",
               !.calls = @ + 1,
               !.texts = IF took THEN Append(@, item.text) ELSE @,
               !.started = IF r.say # NoItem THEN Append(@, r.say.id) ELSE @,
               !.removed = @ \cup (was \ QueueIds(r.a))]

\* speak(text) from the main thread, up to its return or to runAndWait.
AudSpeak ==
    /\ app.mainpc = "idle"
    /\ ah.calls < MaxSpeaks
    /\ \E text \in Texts :
          LET item == [id |-> Len(ah.texts) + 1, text |-> text]
              r == speak(audio, item) IN
          /\ audio' = r.a
          /\ sink' = IF r.say # NoItem
                     THEN [sink EXCEPT !.playing = @ \cup {r.say.id}]
                     ELSE sink
          /\ app' = IF r.say # NoItem THEN [app EXCEPT !.mainpc = "speak"] ELSE app
          /\ ah' = AudHistSpeak(item, r)
    /\ UNCHANGED <<monVars, script, rp, cam, acq, ch, cb, tk>>

\* The engine ends the utterance it sounds and calls _on_speech_end inside
\* runAndWait.  When the callback itself reaches engine.runAndWait, that
\* nested call raises (the loop is running) and the except of _speak_direct
\* resets is_speaking; what say() queued is sounded by the running loop.
FinishUtterance ==
    /\ sink.playing # {}
    /\ \E u \in sink.playing :
          LET r == on_speech_end(audio) IN
          /\ audio' = IF r.say # NoItem
                      THEN [r.a EXCEPT !.is_speaking = FALSE]
                      ELSE r.a
          /\ sink' = [sink EXCEPT !.playing =
                         (@ \ {u}) \cup (IF r.say # NoItem THEN {r.say.id} ELSE {})]
          /\ ah' = [ah EXCEPT !.op = "on_speech_end",
                              !.done = @ \cup {u},
                              !.started = IF r.say # NoItem
                                          THEN Append(@, r.say.id) ELSE @,
                              !.removed = @ \cup (QueueIds(audio) \ QueueIds(r.a))]

\* runAndWait of a speak() called by the main thread returns.
AudSinkFinish ==
    /\ app.mainpc = "speak"
    /\ FinishUtterance
    /\ app' = [app EXCEPT !.mainpc = IF sink'.playing = {} THEN "idle" ELSE @]
    /\ UNCHANGED <<monVars, script, rp, cam, acq, ch, cb, tk>>

\* AudioManager.stop() from the main thread: engine.stop() silences the
\* engine, then the queue and the flag are cleared.
AudStop ==
    /\ app.mainpc = "idle"
    /\ audio' = stop(audio)
    /\ sink' = [sink EXCEPT !.playing = IF audio.engine THEN {} ELSE @]
    /\ ah' = [ah EXCEPT !.op = "stop",
                        !.abandoned = @ \cup QueueIds(audio) \cup sink.playing,
                        !.removed = @ \cup QueueIds(audio)]
    /\ UNCHANGED <<monVars, script, rp, cam, acq, app, ch, cb, tk>>

\* _init_audio succeeds, or fails before or after pyttsx3.init() returned.
InitAudio ==
    /\ watermark = WatermarkInit
    /\ now = StartTime
    /\ h = HistInit
    /\ script = ScriptIdle
    /\ rp = RpIdle
    /\ CamIdle
    /\ \E made \in BOOLEAN, ok \in BOOLEAN :
          /\ ok => made
          /\ audio = AudioManagerInit(made, ok)
    /\ sink = SinkInit
    /\ cb = CallbackInit
    /\ ah = AudHistInit
    /\ tk = TickHistInit

NextAudio ==
    \/ AudSpeak
    \/ AudSinkFinish
    \/ AudStop

SpecAudio == InitAudio /\ [][NextAudio]_vars

\* The engine keeps its contract: an utterance it sounds ends.
SpecAudioFair == SpecAudio /\ WF_vars(AudSinkFinish)

\* ------------------------- AudioManager with the callback on the sink's thread
\* The engine takes an utterance from say() and sounds it on its own thread,
\* on which it also calls _on_speech_end; the statements of speak,
\* _on_speech_end, _process_next_message and _speak_direct of the two
\* threads interleave (the class has no lock).
MtAt(t, pc) ==
    cb[t].pc = pc

MtGoto(t, pc) ==
    [cb EXCEPT ![t].pc = pc]

\* speak, lines 139-147: the guards and message_queue.append(text)
MtSpeakAppend ==
    /\ MtAt("main", "idle")
    /\ ah.calls < MaxSpeaks
    /\ \E text \in Texts :
          LET item == [id |-> Len(ah.texts) + 1, text |-> text] IN
          IF ~sink_ready(audio) \/ is_blank(text)
          THEN /\ ah' = [ah EXCEPT !.op = "speak", !.calls = @ + 1]
               /\ UNCHANGED <<audio, cb>>
          ELSE /\ audio' = [audio EXCEPT !.message_queue = Append(@, item)]
               /\ ah' = [ah EXCEPT !.op = "speak", !.calls = @ + 1,
                                   !.texts = Append(@, text)]
               /\ cb' = MtGoto("main", "speak_test")
    /\ UNCHANGED <<monVars, script, rp, camVars, sink, tk>>

\* speak, line 156: if not self.is_speaking
MtSpeakTest ==
    /\ MtAt("main", "speak_test")
    /\ cb' = MtGoto("main", IF ~audio.is_speaking THEN "process" ELSE "idle")
    /\ UNCHANGED <<monVars, script, rp, camVars, audio, sink, ah, tk>>

\* The engine ends an utterance and calls _on_speech_end on its thread:
\* line 92, self.is_speaking = False
MtSpeechEnd ==
    /\ MtAt("sink", "idle")
    /\ \E u \in sink.playing :
          /\ sink' = [sink EXCEPT !.playing = @ \ {u}]
          /\ ah' = [ah EXCEPT !.op = "on_speech_end", !.done = @ \cup {u}]
    /\ audio' = [audio EXCEPT !.is_speaking = FALSE]
    /\ cb' = MtGoto("sink", "end_test")
    /\ UNCHANGED <<monVars, script, rp, camVars, tk>>

\* _on_speech_end, lines 95-96: if self.message_queue, and the sleep
MtEndTest ==
    /\ MtAt("sink", "end_test")
    /\ cb' = MtGoto("sink", IF audio.message_queue # <<>> THEN "process" ELSE "idle")
    /\ UNCHANGED <<monVars, script, rp, camVars, audio, sink, ah, tk>>

\* _process_next_message, line 101
MtProcessTest(t) ==
    /\ MtAt(t, "process")
    /\ cb' = MtGoto(t, IF audio.message_queue # <<>> /\ ~audio.is_speaking
                       THEN "pop" ELSE "idle")
    /\ UNCHANGED <<monVars, script, rp, camVars, audio, sink, ah, tk>>

\* _process_next_message, line 102: pop(0) raises IndexError on an empty list
MtPop(t) ==
    /\ MtAt(t, "pop")
    /\ IF audio.message_queue = <<>>
       THEN /\ cb' = MtGoto(t, "idle")
            /\ ah' = [ah EXCEPT !.raised = TRUE]
            /\ audio' = audio
       ELSE /\ cb' = [cb EXCEPT ![t] = [pc |-> "direct",
                                        item |-> Head(audio.message_queue)]]
            /\ ah' = [ah EXCEPT !.removed = @ \cup {Head(audio.message_queue).id}]
            /\ audio' = [audio EXCEPT !.message_queue = Tail(@)]
    /\ UNCHANGED <<monVars, script, rp, camVars, sink, tk>>

\* _speak_direct, lines 107-114: the entry is handed to the engine.
MtSpeakDirect(t) ==
    /\ MtAt(t, "direct")
    /\ LET r == speak_direct(audio, cb[t].item) IN
       /\ audio' = r.a
       /\ sink' = IF r.say # NoItem
                  THEN [sink EXCEPT !.playing = @ \cup {r.say.id}]
                  ELSE sink
       /\ ah' = IF r.say # NoItem
                THEN [ah EXCEPT !.started = Append(@, r.say.id)]
                ELSE ah
    /\ cb' = [cb EXCEPT ![t] = [pc |-> "idle", item |-> NoItem]]
    /\ UNCHANGED <<monVars, script, rp, camVars, tk>>

NextAudioMT ==
    \/ MtSpeakAppend
    \/ MtSpeakTest
    \/ MtSpeechEnd
    \/ MtEndTest
    \/ \E t \in Threads : MtProcessTest(t)
    \/ \E t \in Threads : MtPop(t)
    \/ \E t \in Threads : MtSpeakDirect(t)

SpecAudioMT == InitAudio /\ [][NextAudioMT]_vars

\* ------------------------------------------- CameraThread.run (its thread)
\* The `continue` / end of the backends loop.
next_backend(a) ==
    IF a.backend < NumBackends
    THEN [a EXCEPT !.backend = @ + 1, !.pc = "try"]
    ELSE [a EXCEPT !.pc = "verify"]

\* self.camera = cv2.VideoCapture(index, backend): the backend opens the
\* device, or gives a capture that is not opened, or raises.
AcqTryBackend ==
    /\ acq.pc = "try"
    /\ \E outcome \in {"opened", "unopened", "raise"} :
          /\ cam' = [cam EXCEPT !.camera =
                        CASE outcome = "opened" -> "open"
                          [] outcome = "unopened" -> "closed"
                          [] OTHER -> @]
          /\ acq' = IF outcome = "raise"
                    THEN next_backend(acq)
                    ELSE [acq EXCEPT !.pc = "is_opened",
                                     !.opened = @ \/ outcome = "opened"]
    /\ UNCHANGED <<app, ch, monVars, script, rp, audVars>>

\* if self.camera.isOpened(): break
AcqIsOpened ==
    /\ acq.pc = "is_opened"
    /\ acq' = IF cam.camera = "open"
              THEN [acq EXCEPT !.pc = "verify"]
              ELSE next_backend(acq)
    /\ UNCHANGED <<cam, app, ch, monVars, script, rp, audVars>>

\* if not self.camera or not self.camera.isOpened(): log and return;
\* otherwise set the frame size and rate and enter the loop.
AcqVerify ==
    /\ acq.pc = "verify"
    /\ IF cam.camera # "open"
       THEN /\ acq' = [acq EXCEPT !.pc = "finally"]
            /\ ch' = [ch EXCEPT !.openFailed = ~acq.opened]
       ELSE /\ acq' = [acq EXCEPT !.pc = "loop"]
            /\ ch' = ch
    /\ UNCHANGED <<cam, app, monVars, script, rp, audVars>>

\* while self.running:
AcqLoop ==
    /\ acq.pc = "loop"
    /\ acq' = [acq EXCEPT !.pc = IF cam.running THEN "read" ELSE "finally"]
    /\ UNCHANGED <<cam, app, ch, monVars, script, rp, audVars>>

\* self.camera.read() is entered.
AcqReadBegin ==
    /\ acq.pc = "read"
    /\ acq' = [acq EXCEPT !.pc = "reading", !.readOpen = (cam.camera = "open"),
                          !.sawFull = FALSE, !.discarded = FALSE]
    /\ ch' = [ch EXCEPT !.readAfterStop = @ \/ ch.stopReturned]
    /\ UNCHANGED <<cam, app, monVars, script, rp, audVars>>

\* self.camera.read() returns: a frame (ret true), no frame (ret false), or,
\* when the capture was released by the other thread during the read, any
\* of these or an exception.
AcqReadEnd ==
    /\ acq.pc = "reading"
    /\ \E out \in {"frame", "noframe", "raise"} :
          /\ out = "frame" => (acq.readOpen /\ acq.n < MaxFrames)
          /\ out = "raise" => (acq.readOpen /\ cam.camera # "open")
          /\ acq' = CASE out = "frame" ->
                           [acq EXCEPT !.pc = "full", !.frame = acq.n + 1,
                                       !.n = acq.n + 1]
                      [] out = "noframe" -> [acq EXCEPT !.pc = "waitkey"]
                      [] OTHER -> [acq EXCEPT !.pc = "finally"]
    /\ UNCHANGED <<cam, app, ch, monVars, script, rp, audVars>>

\* if self.frame_queue.full():
AcqFull ==
    /\ acq.pc = "full"
    /\ acq' = IF queue_full(cam.frame_queue)
              THEN [acq EXCEPT !.pc = "get_nowait", !.sawFull = TRUE]
              ELSE [acq EXCEPT !.pc = "put"]
    /\ UNCHANGED <<cam, app, ch, monVars, script, rp, audVars>>

\* try: self.frame_queue.get_nowait() except: pass
AcqGetNowait ==
    /\ acq.pc = "get_nowait"
    /\ cam' = [cam EXCEPT !.frame_queue = queue_get_nowait(@).rest]
    /\ acq' = [acq EXCEPT !.pc = "put", !.discarded = (cam.frame_queue # <<>>)]
    /\ UNCHANGED <<app, ch, monVars, script, rp, audVars>>

\* self.frame_queue.put(frame.copy()): blocks while the queue is full.
AcqPut ==
    /\ acq.pc = "put"
    /\ Len(cam.frame_queue) < QueueMaxsize
    /\ cam' = [cam EXCEPT !.frame_queue = Append(@, acq.frame)]
    /\ acq' = [acq EXCEPT !.pc = "waitkey"]
    /\ ch' = [ch EXCEPT !.writes = IF @ < 2 THEN @ + 1 ELSE @,
                        !.lastPut = acq.frame]
    /\ UNCHANGED <<app, monVars, script, rp, audVars>>

\* cv2.waitKey(1)
AcqWaitKey ==
    /\ acq.pc = "waitkey"
    /\ acq' = [acq EXCEPT !.pc = "loop"]
    /\ UNCHANGED <<cam, app, ch, monVars, script, rp, audVars>>

\* finally: self.stop() -- self.running = False
AcqFinallyStop ==
    /\ acq.pc = "finally"
    /\ cam' = [cam EXCEPT !.running = FALSE]
    /\ acq' = [acq EXCEPT !.pc = "finally_release"]
    /\ UNCHANGED <<app, ch, monVars, script, rp, audVars>>

\* finally: self.stop() -- if self.camera: self.camera.release(); run() returns
AcqFinallyRelease ==
    /\ acq.pc = "finally_release"
    /\ cam' = [cam EXCEPT !.camera = release_camera(@)]
    /\ acq' = [acq EXCEPT !.pc = "done"]
    /\ UNCHANGED <<app, ch, monVars, script, rp, audVars>>

\* ------------------------------------------ PillDetectorApp (main thread)
\* _use_selected_model, when the model loads.
UseSelectedModel ==
    /\ app.mainpc = "idle"
    /\ app' = [app EXCEPT !.current_model = TRUE]
    /\ UNCHANGED <<cam, acq, ch, monVars, script, rp, audVars>>

\* _toggle_detection (button or <space>)
ToggleDetection ==
    /\ app.mainpc = "idle"
    /\ app' = [app EXCEPT !.detecting = ~@]
    /\ UNCHANGED <<cam, acq, ch, monVars, script, rp, audVars>>

\* _toggle_recording (button or <r>) with a save directory chosen: start
\* (the VideoWriter is created, or its creation raises) or stop.
ToggleRecording ==
    /\ app.mainpc = "idle"
    /\ IF ~app.recording
       THEN /\ watermark' = reset_stats(watermark)
            /\ \E created \in BOOLEAN :
                  app' = IF created
                         THEN [app EXCEPT !.video_writer = "open",
                                          !.recording = TRUE]
                         ELSE app
       ELSE /\ app' = [app EXCEPT !.recording = FALSE, !.video_writer = "None"]
            /\ watermark' = watermark
    /\ UNCHANGED <<cam, acq, ch, now, h, script, rp, audVars>>

\* _toggle_camera, else branch: a new CameraThread is created and started,
\* the session is shown as open and the first _update_video is scheduled.
\* One CameraThread is modelled: a new one is created only once the thread
\* of the previous one has returned.
ToggleCameraOpen ==
    /\ app.mainpc = "idle"
    /\ ~(app.camera_thread = "thread" /\ is_alive)
    /\ app.current_model
    /\ ~is_alive
    /\ app.pending < MaxPending
    /\ cam' = CameraThreadInit
    /\ acq' = [AcqInit EXCEPT !.pc = "try"]
    /\ ch' = CamHistInit
    /\ app' = [app EXCEPT !.camera_thread = "thread",
                          !.cam_btn = "close_camera",
                          !.pending = @ + 1]
    /\ watermark' = reset_stats(watermark)
    /\ UNCHANGED <<now, h, script, rp, audVars>>

\* _toggle_camera, first branch, up to self.running = False of stop().
ToggleCameraStop ==
    /\ app.mainpc = "idle"
    /\ app.camera_thread = "thread" /\ is_alive
    /\ cam' = [cam EXCEPT !.running = FALSE]
    /\ app' = [app EXCEPT !.mainpc = "stop"]
    /\ ch' = [ch EXCEPT !.closeTrace = <<>>,
                        !.closeHad = /\ app.video_writer = "open"
                                     /\ app.count_label > 0
                                     /\ watermark.max_pill_count > 0]
    /\ UNCHANGED <<acq, monVars, script, rp, audVars>>

\* _toggle_camera, first branch, from `if self.camera: release()` of stop()
\* to self.recording = False (line 1939).
ToggleCameraClose ==
    /\ app.mainpc = "stop"
    /\ cam' = [cam EXCEPT !.camera = release_camera(@)]
    /\ ch' = [ch EXCEPT !.stopReturned = TRUE,
                        !.closeTrace = Append(@, "stop")]
    /\ app' = [app EXCEPT !.camera_thread = "None",
                          !.cam_btn = "open_camera",
                          !.detecting = FALSE,
                          !.recording = FALSE,
                          !.mainpc = "close_writer"]
    /\ UNCHANGED <<acq, monVars, script, rp, audVars>>

\* _toggle_camera, first branch: the writer is released (lines 1946-1948).
CloseReleaseWriter ==
    /\ app.mainpc = "close_writer"
    /\ app' = [app EXCEPT !.video_writer = "None", !.mainpc = "close_clear"]
    /\ ch' = [ch EXCEPT !.closeTrace = Append(@, "release")]
    /\ UNCHANGED <<cam, acq, monVars, script, rp, audVars>>

Mut_CloseClearCount_keeps_count ==
    /\ app.mainpc = "close_clear"
    /\ app' = [app EXCEPT !.mainpc = "close_reset"]
    /\ ch' = [ch EXCEPT !.closeTrace = Append(@, "clear")]
    /\ UNCHANGED <<cam, acq, monVars, script, rp, audVars>>

\* _toggle_camera, first branch: the canvas and the count label are cleared
\* (lines 1951-1952).
CloseClearCount ==
    /\ app.mainpc = "close_clear"
    /\ app' = [app EXCEPT !.count_label = 0, !.mainpc = "close_reset"]
    /\ ch' = [ch EXCEPT !.closeTrace = Append(@, "clear")]
    /\ UNCHANGED <<cam, acq, monVars, script, rp, audVars>>

\* _toggle_camera, first branch: reset_stats and the end of the handler
\* (lines 1955-1962).
CloseResetStats ==
    /\ app.mainpc = "close_reset"
    /\ watermark' = reset_stats(watermark)
    /\ app' = [app EXCEPT !.mainpc = "idle"]
    /\ ch' = [ch EXCEPT !.closeTrace = Append(@, "reset")]
    /\ UNCHANGED <<cam, acq, now, h, script, rp, audVars>>

\* What the model call of a tick gives: it raises, or returns no results,
\* or results with n boxes.
DetectOutcomes ==
    {[kind |-> "raise", boxes |-> 0], [kind |-> "empty", boxes |-> 0]}
        \cup {[kind |-> "results", boxes |-> n] : n \in 0..MaxBoxes}

\* The frames the hand-off contract allows get_frame to return: none (0)
\* when nothing was put since the last get_frame or when the producer has
\* discarded the unread frame and not yet put the new one; otherwise the
\* frame put last.
MidReplace ==
    acq.pc = "put" /\ acq.discarded

GetExpected ==
    IF ch.writes = 0 \/ MidReplace THEN {0} ELSE {ch.lastPut}

\* The texts the target entry can hold: empty (no number) or a numeral.
TargetTexts == {""} \cup {ToString(n) : n \in Targets}

\* int(text) succeeds, as does IntVar.get() on the entry's text
is_int(text) ==
    \E n \in Targets : ToString(n) = text

int_of(text) ==
    CHOOSE n \in Targets : ToString(n) = text

\* f"{custom_text}{target_pills_var.get()}..." of line 1910
success_message(n) ==
    ToString(n) \o " pian fa yao cheng gong"

\* Lines 2072-2073: the writer that write() is called on ("none": no call).
WriterWritten ==
    IF app.recording /\ app.video_writer # "None"
    THEN app.video_writer
    ELSE "none"

\* What a tick that obtained a frame records before update_stats.
TickSeen(counted, boxes) ==
    [TickHistInit EXCEPT !.frame = TRUE, !.enabled = counted, !.boxes = boxes,
                         !.fireStart = tk.fireStart,
                         !.runFires = tk.runFires]

\* _trigger_success_notification after update_stats returned True with
\* monitor fields w: play_beep, the message (IntVar.get() raises on a text
\* that is no number: the except of line 1924 ends the handler), speak, and
\* after speak has returned mark_notification_triggered.
TriggerSuccessNotification(f, pill_count, w, seen) ==
    LET t1 == [seen EXCEPT !.updates = 1, !.arg = pill_count, !.fired = TRUE,
                           !.trace = <<"beep">>,
                           !.refired = (w.target_start_time = tk.fireStart),
                           !.fireStart = w.target_start_time,
                           !.write = WriterWritten,
                           !.runFires = IF @ < 2 THEN @ + 1 ELSE @,
                           !.firedTarget = w.target_pills] IN
    IF ~is_int(app.target_pills_var)
    THEN /\ watermark' = w
         /\ app' = [app EXCEPT !.current_frame = f, !.count_label = pill_count]
         /\ tk' = t1
         /\ UNCHANGED <<audio, sink, ah>>
    ELSE LET item == [id |-> Len(ah.texts) + 1,
                      text |-> success_message(int_of(app.target_pills_var))]
             r == speak(audio, item) IN
         /\ audio' = r.a
         /\ ah' = AudHistSpeak(item, r)
         /\ IF r.say # NoItem
            THEN /\ sink' = [sink EXCEPT !.playing = @ \cup {r.say.id}]
                 /\ watermark' = w
                 /\ app' = [app EXCEPT !.current_frame = f,
                                       !.pill_count = pill_count,
                                       !.mainpc = "notify"]
                 /\ tk' = [t1 EXCEPT !.trace = <<"beep", "speak">>,
                                     !.write = "none",
                                     !.said = item.text]
            ELSE /\ sink' = sink
                 /\ watermark' = mark_notification_triggered(w, now)
                 /\ app' = [app EXCEPT !.current_frame = f,
                                       !.count_label = pill_count]
                 /\ tk' = [t1 EXCEPT !.trace = <<"beep", "speak", "mark">>,
                                     !.said = IF Len(ah'.texts) > Len(ah.texts)
                                              THEN item.text ELSE ""]

\* The frame-processing part of _update_video (lines 2017-2094) for frame f.
ProcessFrame(f, det, d) ==
    LET counted == app.detecting /\ app.current_model
        seen == TickSeen(counted, IF counted THEN det.boxes ELSE 0) IN
    IF counted /\ det.kind = "raise"
    THEN /\ app' = [app EXCEPT !.current_frame = f]
         /\ watermark' = watermark
         /\ tk' = [seen EXCEPT !.failed = TRUE]
         /\ UNCHANGED <<audio, sink, ah>>
    ELSE IF counted /\ det.kind = "empty"
    THEN /\ app' = [app EXCEPT !.current_frame = f, !.count_label = 0]
         /\ watermark' = watermark
         /\ tk' = [seen EXCEPT !.write = WriterWritten]
         /\ UNCHANGED <<audio, sink, ah>>
    ELSE LET pill_count == IF counted THEN det.boxes ELSE 0
             r == update_stats(watermark, pill_count, now, d) IN
         IF counted /\ r.ret
         THEN TriggerSuccessNotification(f, pill_count, r.w, seen)
         ELSE /\ app' = [app EXCEPT !.current_frame = f,
                                    !.count_label = pill_count]
              /\ watermark' = r.w
              /\ tk' = [seen EXCEPT !.updates = 1, !.arg = pill_count,
                                    !.write = WriterWritten,
                                    !.runFires =
                                        IF pill_count = watermark.target_pills
                                        THEN @ ELSE 0]
              /\ UNCHANGED <<audio, sink, ah>>

\* A tick that obtained no frame.
TickNoFrame ==
    [TickHistInit EXCEPT !.fireStart = tk.fireStart, !.runFires = tk.runFires]

\* _on_closing up to the message box of _clean_temp_files: the camera
\* thread is stopped, the writer is released (video_writer and recording
\* keep their values), the audio is stopped, and the modal box runs the
\* event loop, in which scheduled ticks fire.
OnClosing ==
    /\ app.mainpc = "idle"
    /\ IF app.camera_thread = "thread"
       THEN /\ cam' = [cam EXCEPT !.running = FALSE,
                                  !.camera = release_camera(@)]
            /\ ch' = [ch EXCEPT !.stopReturned = TRUE]
       ELSE UNCHANGED <<cam, ch>>
    /\ app' = [app EXCEPT !.video_writer = IF @ = "None" THEN @ ELSE "released",
                          !.mainpc = "closing_box"]
    /\ audio' = stop(audio)
    /\ UNCHANGED <<acq, monVars, script, rp, sink, cb, ah, tk>>

\* _on_closing: self.destroy() ends the event loop; the application object
\* is gone and no handler runs again.
OnClosingDestroy ==
    /\ app.mainpc = "closing_box"
    /\ app' = [AppInit EXCEPT !.mainpc = "destroyed"]
    /\ tk' = TickHistInit
    /\ UNCHANGED <<cam, acq, ch, monVars, script, rp, audio, sink, cb, ah>>

\* _update_video: one scheduled tick.
UpdateVideo ==
    /\ app.mainpc \in {"idle", "closing_box"}
    /\ app.pending > 0
    /\ IF app.camera_thread = "thread" /\ is_alive
       THEN LET g == get_frame(cam.frame_queue) IN
            /\ cam' = [cam EXCEPT !.frame_queue = g.rest]
            /\ ch' = [ch EXCEPT !.getSeen = TRUE, !.got = g.item,
                                !.expect = GetExpected, !.writes = 0]
            /\ IF g.item = 0
               THEN /\ tk' = TickNoFrame
                    /\ UNCHANGED <<app, watermark, audio, sink, ah>>
               ELSE \E det \in DetectOutcomes, d \in Settles :
                        ProcessFrame(g.item, det, d)
       ELSE /\ app' = [app EXCEPT !.pending = @ - 1]
            /\ tk' = TickNoFrame
            /\ UNCHANGED <<cam, ch, watermark, audio, sink, ah>>
    /\ UNCHANGED <<acq, now, h, script, rp, cb>>

InitCam ==
    /\ watermark = WatermarkInit
    /\ now = StartTime
    /\ h = HistInit
    /\ script = ScriptIdle
    /\ rp = RpIdle
    /\ CamIdle
    /\ AudIdle

NextCam ==
    \/ AcqTryBackend
    \/ AcqIsOpened
    \/ AcqVerify
    \/ AcqLoop
    \/ AcqReadBegin
    \/ AcqReadEnd
    \/ AcqFull
    \/ AcqGetNowait
    \/ AcqPut
    \/ AcqWaitKey
    \/ AcqFinallyStop
    \/ AcqFinallyRelease
    \/ UseSelectedModel
    \/ ToggleDetection
    \/ ToggleRecording
    \/ ToggleCameraOpen
    \/ ToggleCameraStop
    \/ ToggleCameraClose
    \/ CloseReleaseWriter
    \/ CloseClearCount
    \/ CloseResetStats
    \/ OnClosing
    \/ OnClosingDestroy
    \/ UpdateVideo

SpecCam == InitCam /\ [][NextCam]_vars

\* ------------------------------------- the acquisition loop left to itself
\* The device stops delivering (unplugged, taken by another program): the
\* VideoCapture reports closed from then on, without stop() being called.
DeviceCloses ==
    /\ cam.camera = "open"
    /\ cam.running
    /\ cam' = [cam EXCEPT !.camera = "closed"]
    /\ UNCHANGED <<acq, app, ch, monVars, script, rp, audVars>>

\* The steps of the acquisition thread inside and after its loop.
AcqStep ==
    \/ AcqLoop
    \/ AcqReadBegin
    \/ AcqReadEnd
    \/ AcqFull
    \/ AcqGetNowait
    \/ AcqPut
    \/ AcqWaitKey
    \/ AcqFinallyStop
    \/ AcqFinallyRelease

\* An open session whose acquisition thread is in its loop; nobody calls
\* stop(); the ticks take the frames.
InitAcq ==
    /\ watermark = WatermarkInit
    /\ now = StartTime
    /\ h = HistInit
    /\ script = ScriptIdle
    /\ rp = RpIdle
    /\ cam = [CameraThreadInit EXCEPT !.camera = "open"]
    /\ acq = [AcqInit EXCEPT !.pc = "loop", !.opened = TRUE]
    /\ app = [AppInit EXCEPT !.camera_thread = "thread",
                             !.current_model = TRUE,
                             !.cam_btn = "close_camera",
                             !.pending = 1]
    /\ ch = CamHistInit
    /\ AudIdle

NextAcq ==
    \/ AcqStep
    \/ DeviceCloses
    \/ UpdateVideo

SpecAcq == InitAcq /\ [][NextAcq]_vars

\* The scheduler runs the acquisition thread whenever it can take a step.
SpecAcqFair == SpecAcq /\ WF_vars(AcqStep)

\* --------------------------------------- the processing loop of an open session
\* The session after _toggle_camera opened the camera with a model loaded:
\* the acquisition thread is in its loop and hands over a frame or none
\* (get_frame), the user edits the target entry, sets the target and toggles
\* detection, and time passes.
EditTargetEntry ==
    /\ app.mainpc = "idle"
    /\ \E text \in TargetTexts : app' = [app EXCEPT !.target_pills_var = text]
    /\ UNCHANGED <<monVars, script, rp, cam, acq, ch, audVars>>

\* time.time() advances.
TickClock ==
    /\ now < MaxTickTime
    /\ now' = now + 1
    /\ UNCHANGED <<watermark, h, script, rp, camVars, audVars>>

\* _set_target_pills: the entry's text, "" read as 0; a text that is no
\* number raises ValueError and changes nothing.
SetTargetPills ==
    /\ app.mainpc = "idle"
    /\ LET target_str == app.target_pills_var IN
       watermark' = IF target_str = ""
                    THEN set_target_pills(watermark, 0)
                    ELSE IF is_int(target_str)
                    THEN set_target_pills(watermark, int_of(target_str))
                    ELSE watermark
    /\ tk' = [tk EXCEPT !.runFires = 0]
    /\ UNCHANGED <<now, h, script, rp, camVars, audio, sink, cb, ah>>

\* _update_video of the open session.
UpdateVideoTick ==
    /\ app.mainpc = "idle"
    /\ app.pending > 0
    /\ app.camera_thread = "thread" /\ is_alive
    /\ ah.calls < MaxSpeaks
    /\ \E f \in 0..1 :
          IF f = 0
          THEN /\ tk' = TickNoFrame
               /\ UNCHANGED <<app, watermark, audio, sink, ah>>
          ELSE \E det \in DetectOutcomes, d \in Settles : ProcessFrame(f, det, d)
    /\ UNCHANGED <<now, h, script, rp, cam, acq, ch, cb>>

\* runAndWait of the speak() of _trigger_success_notification returns: the
\* handler goes on with mark_notification_triggered (line 1917) and
\* _update_video with the count label (line 2065).
NotifyResume ==
    /\ app.mainpc = "notify"
    /\ FinishUtterance
    /\ IF sink'.playing = {}
       THEN /\ watermark' = mark_notification_triggered(watermark, now)
            /\ app' = [app EXCEPT !.mainpc = "idle",
                                  !.count_label = app.pill_count]
            /\ tk' = [tk EXCEPT !.trace = Append(@, "mark"),
                                !.write = WriterWritten]
       ELSE UNCHANGED <<watermark, app, tk>>
    /\ UNCHANGED <<now, h, script, rp, cam, acq, ch, cb>>

InitTick ==
    /\ watermark = WatermarkInit
    /\ now = StartTime
    /\ h = HistInit
    /\ script = ScriptIdle
    /\ rp = RpIdle
    /\ cam = [CameraThreadInit EXCEPT !.camera = "open"]
    /\ acq = [AcqInit EXCEPT !.pc = "loop", !.opened = TRUE]
    /\ app = [AppInit EXCEPT !.camera_thread = "thread",
                             !.current_model = TRUE,
                             !.cam_btn = "close_camera",
                             !.pending = 1]
    /\ ch = CamHistInit
    /\ \E made \in BOOLEAN, ok \in BOOLEAN :
          /\ ok => made
          /\ audio = AudioManagerInit(made, ok)
    /\ sink = SinkInit
    /\ cb = CallbackInit
    /\ ah = AudHistInit
    /\ tk = TickHistInit

NextTick ==
    \/ TickClock
    \/ EditTargetEntry
    \/ SetTargetPills
    \/ ToggleDetection
    \/ UpdateVideoTick
    \/ NotifyResume

SpecTick == InitTick /\ [][NextTick]_vars

\* ------------------------------------------- a model file's round trip
\* A trained model file of up to MaxModelLen bytes is encrypted by the
\* training tool (xunlian.py) and the .rp file is decrypted by the
\* detection tool (_use_selected_model of jiance1.py).
InitRP ==
    /\ watermark = WatermarkInit
    /\ now = StartTime
    /\ h = HistInit
    /\ script = ScriptIdle
    /\ CamIdle
    /\ AudIdle
    /\ \E n \in 0..MaxModelLen :
          \E m \in [1..n -> ModelBytes] :
             rp = [RpIdle EXCEPT !.phase = "plain", !.model = m]

EncryptModel ==
    /\ rp.phase = "plain"
    /\ rp' = [rp EXCEPT !.phase = "encrypted", !.file = encrypt_model(rp.model)]
    /\ UNCHANGED <<monVars, script, camVars, audVars>>

DecryptModel ==
    /\ rp.phase = "encrypted"
    /\ LET r == decrypt_model(rp.file) IN
       rp' = [rp EXCEPT !.phase = "decrypted", !.ok = r.ok,
                        !.written = r.written, !.out = r.out]
    /\ UNCHANGED <<monVars, script, camVars, audVars>>

NextRP ==
    \/ EncryptModel
    \/ DecryptModel

SpecRP == InitRP /\ [][NextRP]_vars

\* ------------------------------------- recording during an open session
\* The open session with target 1 set and detection on, in which the user
\* starts and stops recording and toggles detection while ticks run.
InitRec ==
    /\ watermark = set_target_pills(WatermarkInit, 1)
    /\ now = StartTime
    /\ h = HistInit
    /\ script = ScriptIdle
    /\ rp = RpIdle
    /\ cam = [CameraThreadInit EXCEPT !.camera = "open"]
    /\ acq = [AcqInit EXCEPT !.pc = "loop", !.opened = TRUE]
    /\ app = [AppInit EXCEPT !.camera_thread = "thread",
                             !.current_model = TRUE,
                             !.cam_btn = "close_camera",
                             !.pending = 1,
                             !.detecting = TRUE,
                             !.target_pills_var = "1"]
    /\ ch = CamHistInit
    /\ AudIdle

NextRec ==
    \/ TickClock
    \/ ToggleDetection
    \/ ToggleRecording
    \/ UpdateVideoTick
    \/ NotifyResume

SpecRec == InitRec /\ [][NextRec]_vars

\* ------------------------------------------------------- claims C1 to C4
Notified ==
    watermark.notification_triggered \/ watermark.success_message_shown

\* C1: with a fixed target and a caller that acknowledges every True return
\* before it observes again, update_stats returns True at most once within
\* each maximal contiguous run of observations equal to the target.
C1_AtMostOncePerRun ==
    h.fires <= 1

\* A run that fired, was acknowledged and went on with further equal counts.
C1_Witness ==
    /\ h.op = "update_stats"
    /\ h.fires = 1
    /\ ~h.ret
    /\ h.len >= 3
    /\ watermark.notification_triggered

\* C2: update_stats returns True only on an observation equal to the target
\* that is not the first of its run and for which the time since the first
\* observation of the run has reached the settle duration drawn there; the
\* first observation of a run and those before the threshold return False.
C2_TrueOnlyAfterSettle ==
    h.op = "update_stats" =>
        /\ h.ret =>
            /\ watermark.target_pills > 0
            /\ watermark.current_pill_count = watermark.target_pills
            /\ h.len >= 2
            /\ now - h.start >= h.settle
            /\ watermark.target_start_time = h.start
            /\ watermark.target_stable_seconds = h.settle
        /\ (h.len = 1 \/ (h.len >= 1 /\ now - h.start < h.settle)) => ~h.ret

\* The third observation of a run fires exactly at the threshold.
C2_Witness ==
    /\ h.op = "update_stats"
    /\ h.ret
    /\ h.len = 3
    /\ now - h.start = h.settle

\* C3: an unequal count before the settle duration abandons the episode; the
\* next equal observation starts a new one (start time now, settle duration
\* newly drawn), returns False, and the new episode fires at an observation
\* once its own settle duration has elapsed.
C3_AbandonedEpisodeRestarts ==
    h.op = "update_stats" =>
        /\ (h.len = 0 /\ h.abandoned) =>
            /\ ~watermark.target_reached
            /\ watermark.target_start_time = 0
            /\ ~Notified
        /\ (h.len = 1 /\ h.afterAbandon) =>
            /\ ~h.ret
            /\ watermark.target_reached
            /\ watermark.target_start_time = now
            /\ watermark.target_stable_seconds = h.settle
            /\ ~Notified
        /\ (h.len >= 2 /\ h.afterAbandon /\ now - h.start >= h.settle) =>
            h.fires = 1

\* The episode after an abandoned one fires.
C3_Witness ==
    /\ h.op = "update_stats"
    /\ h.afterAbandon
    /\ h.ret
    /\ now - h.start >= h.settle

\* C4: with target 0, update_stats returns False for every count at every
\* time and leaves the reached and notification-sent flags false.
C4_DisabledNeverFires ==
    (h.op = "update_stats" /\ watermark.target_pills = 0) =>
        /\ ~h.ret
        /\ ~watermark.target_reached
        /\ ~Notified

\* A positive count observed after an episode had run and the target was
\* then set to 0.
C4_Witness ==
    /\ h.op = "update_stats"
    /\ watermark.target_pills = 0
    /\ watermark.current_pill_count > 0
    /\ watermark.target_stable_seconds > 0

\* ------------------------------------------------------------- claim C5
\* The scenario: target 5, counts 5,5,5,4,5,5,5,5 one per second, settle 2 s.
InScenario ==
    /\ SubSeq(script.counts, 1, Len(Scenario)) = Scenario
    /\ script.period = 1
    /\ script.settle = 2

\* The observations of the script made so far.
Observed ==
    {i \in 1..Len(script.counts) :
        i < script.pos \/ (i = script.pos /\ script.phase = "wait")}

\* C5 as stated: in the scenario update_stats returns True for the first
\* time at the 7th observation and at no earlier one.
C5_FirstFireAtSeventh ==
    InScenario => \A i \in script.fired : i >= 7

\* C5: in the scenario update_stats returns True at the 3rd observation (2 s
\* after the first 5, the settle duration reached) and, the 4 having ended
\* that run, again at the 7th; it returns False at every other observation.
C5_FiresAtThirdAndSeventh ==
    InScenario => script.fired = {3, 7} \cap Observed

C5_Witness ==
    /\ InScenario
    /\ script.fired = {3, 7}
    /\ script.pos > Len(Scenario)

C7_PutNeverBlocks ==
    /\ acq.pc = "put" => Len(cam.frame_queue) < QueueMaxsize
    /\ (app.mainpc = "idle" /\ app.pending > 0) => ENABLED UpdateVideo

\* The producer saw the slot full, the consumer emptied it before the
\* producer's get_nowait, and the producer is about to put.
C7_Witness ==
    /\ acq.pc = "put"
    /\ acq.sawFull
    /\ ~acq.discarded
    /\ cam.frame_queue = <<>>

\* C8: when the main thread's stop() has returned, the acquisition thread
\* has terminated, and it calls camera.read() no more.
C8_StopJoinsThread ==
    ch.stopReturned => (acq.pc = "done" /\ ~ch.readAfterStop)

\* C9: when the main thread's stop() has returned, the capture device is
\* released, and the acquisition thread does not hold it afterwards.
C9_ReleasedAfterStop ==
    ch.stopReturned => cam.camera # "open"

\* C10: when no backend opens the device, the start has failed for the
\* caller: the session is not shown as open and no tick is scheduled for it.
C10_FailedStartNotOpen ==
    ch.openFailed => (app.cam_btn = "open_camera" /\ app.pending = 0)

\* ------------------------------------------------------ claims C11 to C20
StartedIds ==
    {ah.started[i] : i \in 1..Len(ah.started)}

\* C11: at most one announcement sounds at any time, announcements begin to
\* sound in the order in which speak() accepted them, and an entry taken off
\* message_queue (or begun) is never in the queue again.
C11_OneAtATimeFifo ==
    /\ Cardinality(sink.playing) <= 1
    /\ \A i, j \in 1..Len(ah.started) : i < j => ah.started[i] < ah.started[j]
    /\ QueueIds(audio) \cap (ah.removed \cup StartedIds) = {}

C11_Witness ==
    /\ Len(ah.started) >= 3
    /\ {1, 2} \subseteq ah.done
    /\ 3 \in sink.playing

C13_UninitializedSpeakNoop ==
    [][(~audio.initialized /\ ah'.calls = ah.calls + 1)
          => /\ audio' = audio
             /\ sink' = sink
             /\ app'.mainpc = "idle"
             /\ ah'.texts = ah.texts]_vars

C13_Witness ==
    /\ ~audio.initialized
    /\ audio.engine
    /\ ah.op = "speak"
    /\ ah.calls >= 2
    /\ app.mainpc = "idle"

C16_ResetKeepsTarget ==
    h.op = "reset_stats" =>
        /\ ~watermark.target_reached
        /\ ~Notified
        /\ watermark.target_pills = h.targetBefore

C16_Witness ==
    /\ h.op = "reset_stats"
    /\ h.reachedBefore
    /\ watermark.target_pills > 0

TraceCount(what) ==
    Cardinality({i \in 1..Len(tk.trace) : tk.trace[i] = what})

\* C17: a True return of update_stats is acknowledged before the announcement
\* is handed to the AudioManager; it gives one chime and one announcement, it
\* is acknowledged when the tick ends, and no later tick gets True for the
\* same episode.
C17_MarkBeforeDispatch ==
    /\ \A i \in 1..Len(tk.trace) :
          tk.trace[i] = "speak" => \E j \in 1..(i - 1) : tk.trace[j] = "mark"
    /\ (tk.fired /\ app.mainpc = "idle") =>
          /\ TraceCount("beep") = 1
          /\ TraceCount("speak") = 1
          /\ watermark.notification_triggered
    /\ ~tk.refired

\* C19: while an announcement sounds the main thread is not inside speak():
\* the tick that dispatched it has ended and further ticks can run.
C19_SpeakReturnsAtOnce ==
    sink.playing # {} => app.mainpc = "idle"

\* C20: a tick that obtained a frame called update_stats exactly once, with
\* the number of boxes when detection is on and with 0 when it is off; a
\* tick without a frame did not call it.
C20_ObserveOncePerFrame ==
    /\ tk.frame => /\ tk.updates = 1
                   /\ tk.arg = (IF tk.enabled THEN tk.boxes ELSE 0)
    /\ ~tk.frame => tk.updates = 0

\* C18: with _on_speech_end delivered on the sink's thread, no interleaving
\* with speak() lets two utterances sound at once, makes both threads take
\* entries off the queue at the same time (or one of them find it emptied),
\* or loses an accepted entry.
C18_CallbackSerialized ==
    /\ Cardinality(sink.playing) <= 1
    /\ ~(cb["main"].pc \in {"pop", "direct"} /\ cb["sink"].pc \in {"pop", "direct"})
    /\ ~ah.raised
    /\ \A i \in 1..Len(ah.texts) :
          \/ i \in QueueIds(audio)
          \/ i \in StartedIds
          \/ \E t \in Threads : cb[t].item.id = i

\* ------------------------------------------------------------- claim C21
\* C21: a tick whose detection call fails is handled as a zero-detection
\* tick: update_stats was applied once, with count 0, so the monitor holds
\* no episode in progress after it.
C21_FailedDetectionCountsZero ==
    tk.failed =>
        /\ tk.updates = 1
        /\ tk.arg = 0
        /\ (watermark.target_pills > 0 => watermark.target_start_time = 0)
\* ------------------------------------------------------------- claim C22
IsPrefix(s, t) ==
    Len(s) <= Len(t) /\ SubSeq(t, 1, Len(s)) = s

\* C22 as stated: the close performs its effects in the order stop the frame
\* source, release the recording sink, reset the monitor, clear the count.
C22_OrderAsStated ==
    IsPrefix(ch.closeTrace, <<"stop", "release", "reset", "clear">>)

\* C22: closing the camera session performs, in this order: stop the frame
\* source, release the recording sink, clear the displayed count, reset the
\* stability monitor; each effect holds from its step on, and when the close
\* completes all four hold.
C22_CloseOrder ==
    /\ [](/\ IsPrefix(ch.closeTrace, <<"stop", "release", "clear", "reset">>)
          /\ app.mainpc \in {"close_writer", "close_clear", "close_reset"}
                => ~cam.running /\ app.camera_thread = "None"
          /\ app.mainpc \in {"close_clear", "close_reset"}
                => app.video_writer = "None"
          /\ app.mainpc = "close_reset" => app.count_label = 0)
    /\ [][app.mainpc = "close_reset" /\ app'.mainpc = "idle"
            => /\ ch'.closeTrace = <<"stop", "release", "clear", "reset">>
               /\ ~cam'.running /\ app'.camera_thread = "None"
               /\ app'.video_writer = "None" /\ ~app'.recording
               /\ app'.count_label = 0
               /\ watermark' = reset_stats(watermark')
               /\ watermark'.max_pill_count = 0
               /\ ~watermark'.target_reached]_vars

C22_Witness ==
    /\ ch.closeTrace = <<"stop", "release", "clear", "reset">>
    /\ ch.closeHad
    /\ app.mainpc = "idle"
\* ------------------------------------------------------------- claim C23
\* C23: no tick calls VideoWriter.write on a writer that has been released.
C23_NoWriteAfterRelease ==
    tk.write # "released"
\* ------------------------------------------------------------- claim C24
\* C24 as stated: under any sequence of calls, target_reached implies the
\* episode start time is set, and a notification-sent flag implies
\* target_reached.
C24_FlagsImplyReached ==
    /\ watermark.target_reached => watermark.target_start_time # 0
    /\ Notified => watermark.target_reached

\* C24: under any sequence of calls, target_reached implies the episode
\* start time is set; and as long as mark_notification_triggered has only
\* been called while target_reached was True, a notification-sent flag
\* implies target_reached.
C24_FlagsImplyReachedWhenMarkedInTurn ==
    /\ watermark.target_reached => watermark.target_start_time # 0
    /\ ~h.stray => (Notified => watermark.target_reached)

C24_Witness ==
    /\ ~h.stray
    /\ h.op = "mark"
    /\ watermark.notification_triggered
    /\ watermark.success_message_shown
    /\ watermark.target_reached
    /\ watermark.target_start_time # 0
\* ------------------------------------------------------------- claim C25
\* C25: target_stable_seconds is drawn when an episode begins, which only an
\* update_stats call with a count equal to the target does; it lies between
\* 2 and 5; and no call changes it while the episode lasts.
C25_SettleDrawnOncePerEpisode ==
    /\ [](watermark.target_reached
            => watermark.target_stable_seconds \in SettleMin..SettleMax)
    /\ [][/\ (~watermark.target_reached /\ watermark'.target_reached)
               => /\ h'.op = "update_stats"
                  /\ watermark'.target_pills > 0
                  /\ watermark'.current_pill_count = watermark'.target_pills
          /\ (watermark.target_reached /\ watermark'.target_reached)
               => watermark'.target_stable_seconds
                     = watermark.target_stable_seconds
          /\ h'.op \in {"mark", "add_watermark", "tick"}
               => watermark'.target_stable_seconds
                     = watermark.target_stable_seconds]_vars

\* An episode that has lasted past its settle time, was notified and
\* acknowledged, and has just been observed again.
C25_Witness ==
    /\ watermark.target_reached
    /\ watermark.notification_triggered
    /\ h.op = "update_stats"
    /\ ~h.stray
    /\ watermark.target_stable_seconds = SettleMax
    /\ now - watermark.target_start_time > SettleMax
\* ------------------------------------------------------------- claim C26
\* C26: starting or stopping recording and toggling detection leave the
\* reached flag and the notification-sent flags unchanged, and with the
\* target unchanged and no observed count differing from it update_stats
\* returns True at most once.
C26_RecordingKeepsStabilityState ==
    /\ [](tk.runFires <= 1)
    /\ [][(app'.recording # app.recording \/ app'.detecting # app.detecting)
            => /\ watermark'.target_reached = watermark.target_reached
               /\ watermark'.notification_triggered
                     = watermark.notification_triggered
               /\ watermark'.success_message_shown
                     = watermark.success_message_shown]_vars
\* ------------------------------------------------------------- claim C27
\* C27: once the device reports closed while the loop is running, with no
\* call of stop(), the acquisition loop eventually exits and run() returns.
C27_ClosedDeviceEndsLoop ==
    (cam.camera = "closed" /\ cam.running) ~> (acq.pc = "done")
\* ------------------------------------------------------------- claim C28
\* C28: decrypt_model applied to the file written by encrypt_model for a
\* model m returns True and writes exactly m.
C28_RoundTrip ==
    rp.phase = "decrypted" =>
        /\ rp.ok
        /\ rp.written
        /\ rp.out = rp.model
\* ------------------------------------------------------------- claim C29
\* C29: at most one _update_video tick is scheduled at any time, however
\* the camera is opened and closed.
C29_OneTickPending ==
    app.pending <= 1
\* ------------------------------------------------------------- claim C30
\* C30: the announcement dispatched by a tick names the target the monitor
\* held when update_stats returned True in that tick.
C30_AnnouncedTargetIsMonitored ==
    tk.said # "" => tk.said = success_message(tk.firedTarget)
====
